---------------------------- MODULE Spec2Model ----------------------------
(***************************************************************************)
(* A model of truffleHog/truffleHog.py: the history walker find_strings,   *)
(* the diff worker, the path filter and the entropy detector.              *)
(*                                                                         *)
(* Text is modelled as Python models it: a string is a sequence of         *)
(* one-character strings.  None (for a path or for since_commit) is the    *)
(* empty sequence: the code only ever tests these values for truthiness,   *)
(* and None and "" are both falsy.  A commit is a number 1..NumCommits and *)
(* NoCommit stands for None.                                               *)
(***************************************************************************)
EXTENDS Integers, Sequences, FiniteSets, TLC

(***************************************************************************)
(* Characters and Python string operations                                 *)
(***************************************************************************)
UPPER == <<"A","B","C","D","E","F","G","H","I","J","K","L","M",
           "N","O","P","Q","R","S","T","U","V","W","X","Y","Z">>

LOWER == <<"a","b","c","d","e","f","g","h","i","j","k","l","m",
           "n","o","p","q","r","s","t","u","v","w","x","y","z">>

DIGITS == <<"0","1","2","3","4","5","6","7","8","9">>

BASE64_CHARS == UPPER \o LOWER \o DIGITS \o <<"+","/","=">>

HEX_CHARS == <<"1","2","3","4","5","6","7","8","9","0",
               "a","b","c","d","e","f","A","B","C","D","E","F">>

WHITESPACE == {" ", "\t"}

NEWLINE == "\n"

Range(s) == {s[i] : i \in DOMAIN s}

\* Python's `char in char_set` for a one-character string.
CharIn(char, char_set) == \E i \in DOMAIN char_set : char_set[i] = char

\* Python's data.count(x) for a one-character x.
Count(data, x) == Cardinality({i \in DOMAIN data : data[i] = x})

\* sub occurs in s starting at position i (1-based).
OccursAt(sub, s, i) ==
    /\ i >= 1
    /\ i + Len(sub) - 1 <= Len(s)
    /\ \A k \in DOMAIN sub : s[i + k - 1] = sub[k]

\* Python's `sub in s`.
Contains(s, sub) == \E i \in 1..(Len(s) + 1) : OccursAt(sub, s, i)

\* Python's s.startswith(prefix).
StartsWith(s, prefix) == OccursAt(prefix, s, 1)

\* The k-th smallest element of a set of numbers.
Nth(S, k) == CHOOSE p \in S : Cardinality({q \in S : q < p}) = k - 1

\* Python's s.split(sep) for a one-character separator: the pieces between
\* consecutive separators, empty pieces kept.
SplitOn(s, sep) ==
    LET at == {i \in DOMAIN s : s[i] = sep}
        cut(k) == IF k = 0 THEN 0
                  ELSE IF k > Cardinality(at) THEN Len(s) + 1
                  ELSE Nth(at, k)
    IN  [k \in 1..(Cardinality(at) + 1) |-> SubSeq(s, cut(k - 1) + 1, cut(k) - 1)]

\* Python's s.split(): the maximal runs of characters that are not whitespace.
SplitWords(s) ==
    LET blank(i) == i < 1 \/ i > Len(s) \/ s[i] \in WHITESPACE
        starts == {i \in DOMAIN s : ~ blank(i) /\ blank(i - 1)}
        ends   == {i \in DOMAIN s : ~ blank(i) /\ blank(i + 1)}
    IN  [k \in 1..Cardinality(starts) |-> SubSeq(s, Nth(starts, k), Nth(ends, k))]

RECURSIVE JoinWith(_, _)
JoinWith(parts, sep) ==
    IF parts = <<>> THEN <<>>
    ELSE IF Len(parts) = 1 THEN parts[1]
    ELSE parts[1] \o sep \o JoinWith(Tail(parts), sep)

RECURSIVE Flatten(_)
Flatten(seqs) == IF seqs = <<>> THEN <<>> ELSE Head(seqs) \o Flatten(Tail(seqs))

(***************************************************************************)
(* Compiled regular expressions, restricted to the shapes the program's    *)
(* callers use here: an optional ^, a literal, an optional $.              *)
(***************************************************************************)
Re(caret, lit, dollar) == [caret |-> caret, lit |-> lit, dollar |-> dollar]

ReAt(p, s, i) ==
    /\ OccursAt(p.lit, s, i)
    /\ p.caret => i = 1
    /\ p.dollar => i + Len(p.lit) - 1 = Len(s)

\* pattern.match(s): a match at the beginning of s only.
re_match(p, s) == ReAt(p, s, 1)

\* pattern.search(s): a match anywhere in s.
re_search(p, s) == \E i \in 1..(Len(s) + 1) : ReAt(p, s, i)

RECURSIVE FindallLoop(_, _, _, _)
FindallLoop(p, s, i, acc) ==
    LET hits == {j \in i..(Len(s) + 1) : ReAt(p, s, j)}
    IN  IF hits = {} THEN acc
        ELSE LET j == Nth(hits, 1)
             IN  FindallLoop(p, s, j + (IF Len(p.lit) = 0 THEN 1 ELSE Len(p.lit)),
                             Append(acc, p.lit))

\* pattern.findall(s): the non-overlapping matches, left to right.
re_findall(p, s) == FindallLoop(p, s, 1, <<>>)

(***************************************************************************)
(* Entropy detector                                                        *)
(***************************************************************************)
\* get_strings_of_set's default threshold.
THRESHOLD == 20

\* find_entropy's limits 4.5 (base64) and 3 (hex), in tenths.
B64_LIMIT_TENTHS == 45

HEX_LIMIT_TENTHS == 30

\* round(10000 * log2(n)) for n = 1..48: math.log(p_x, 2) in fixed point.
LOG2_X10000 ==
    <<0, 10000, 15850, 20000, 23219, 25850, 28074, 30000, 31699, 33219, 34594, 35850,
      37004, 38074, 39069, 40000, 40875, 41699, 42479, 43219, 43923, 44594, 45236, 45850,
      46439, 47004, 47549, 48074, 48580, 49069, 49542, 50000, 50444, 50875, 51293, 51699,
      52095, 52479, 52854, 53219, 53576, 53923, 54263, 54594, 54919, 55236, 55546, 55850>>

\* The term of shannon_entropy's sum for the symbol x, times 10000 * len(data):
\* p_x = n/len(data) > 0 adds -p_x * log2(p_x) = (n/len) * (log2 len - log2 n).
entropy_term(data, x) ==
    LET n == Count(data, x)
    IN  IF n > 0 THEN n * (LOG2_X10000[Len(data)] - LOG2_X10000[n]) ELSE 0

\* The sum of the terms of iterator[lo..hi], summed by halves.
RECURSIVE entropy_sum(_, _, _, _)
entropy_sum(data, iterator, lo, hi) ==
    IF lo > hi THEN 0
    ELSE IF lo = hi THEN entropy_term(data, iterator[lo])
    ELSE LET mid == (lo + hi) \div 2
         IN  entropy_sum(data, iterator, lo, mid)
             + entropy_sum(data, iterator, mid + 1, hi)

\* shannon_entropy, times 10000 * len(data).
shannon_entropy(data, iterator) ==
    IF data = <<>> THEN 0 ELSE entropy_sum(data, iterator, 1, Len(iterator))

\* `entropy > limit` for the scaled entropy of `data`.
EntropyExceeds(data, iterator, limit_tenths) ==
    shannon_entropy(data, iterator) > limit_tenths * 1000 * Len(data)

\* Lines 139-141: the locals before the loop.
strings_start == [count |-> 0, letters |-> <<>>, strings |-> <<>>]

\* The test that keeps a run, with >= for >.
QualifiesGeq(count, threshold) == count >= threshold

\* Lines 147-148 and 151-152: the test that keeps a run.
Qualifies(count, threshold) == count > threshold

\* Lines 143-150: the loop body, for one character.
strings_body(st, char, char_set, threshold) ==
    IF CharIn(char, char_set)
    THEN [count |-> st.count + 1, letters |-> Append(st.letters, char),
          strings |-> st.strings]
    ELSE [count |-> 0, letters |-> <<>>,
          strings |-> IF Qualifies(st.count, threshold)
                      THEN Append(st.strings, st.letters)
                      ELSE st.strings]

\* Lines 151-153: after the loop.
strings_return(st, threshold) ==
    IF Qualifies(st.count, threshold) THEN Append(st.strings, st.letters)
    ELSE st.strings

\* Line 142: the loop over word[lo..hi], entered with the locals st.  The range
\* is walked by halves, the first half before the second (the test on `half`
\* holds of every loop state: it makes the first half's result a value before
\* the second half is entered), so that a long word needs no deep recursion.
RECURSIVE strings_loop(_, _, _, _, _, _)
strings_loop(word, char_set, threshold, lo, hi, st) ==
    IF lo > hi THEN st
    ELSE IF lo = hi THEN strings_body(st, word[lo], char_set, threshold)
    ELSE LET mid  == (lo + hi) \div 2
             half == strings_loop(word, char_set, threshold, lo, mid, st)
         IN  IF half.count >= 0
             THEN strings_loop(word, char_set, threshold, mid + 1, hi, half)
             ELSE half

\* Lines 138-153, with the default threshold every caller uses.
get_strings_of_set(word, char_set) ==
    strings_return(
        strings_loop(word, char_set, THRESHOLD, 1, Len(word), strings_start), THRESHOLD)

NO_TRUFFLEHOG == <<"n","o","_","t","r","u","f","f","l","e","h","o","g">>

is_no_trufflehog_line(line) == Contains(line, NO_TRUFFLEHOG)

\* is_exclude_line that forgets the inline marker (lines 217-218 dropped).
is_exclude_line_nomarker(line, entropy_regex_exclusions) ==
    \E k \in DOMAIN entropy_regex_exclusions :
        re_search(entropy_regex_exclusions[k], line)

is_exclude_line(line, entropy_regex_exclusions) ==
    \/ is_no_trufflehog_line(line)
    \/ \E k \in DOMAIN entropy_regex_exclusions :
           re_search(entropy_regex_exclusions[k], line)

Flagged(strings, char_set, limit_tenths) ==
    SelectSeq(strings, LAMBDA s : EntropyExceeds(s, char_set, limit_tenths))

\* Lines 237-248: what one word adds to strings_found.
word_strings_found(word) ==
    Flagged(get_strings_of_set(word, BASE64_CHARS), BASE64_CHARS, B64_LIMIT_TENTHS)
    \o Flagged(get_strings_of_set(word, HEX_CHARS), HEX_CHARS, HEX_LIMIT_TENTHS)

\* Lines 234-248: what one line adds to strings_found.
line_strings_found(line, entropy_regex_exclusions) ==
    IF is_exclude_line(line, entropy_regex_exclusions) THEN <<>>
    ELSE LET words == SplitWords(line)
         IN  Flatten([w \in DOMAIN words |-> word_strings_found(words[w])])

\* Lines 230-248: strings_found after the loop over the lines.
strings_found_of(printable_diff, entropy_regex_exclusions) ==
    LET lines == SplitOn(printable_diff, NEWLINE)
    IN  Flatten([l \in DOMAIN lines |->
                    line_strings_found(lines[l], entropy_regex_exclusions)])

BlobPath(blob) == IF blob.b_path # <<>> THEN blob.b_path ELSE blob.a_path

\* A commit's hexsha: fixed width, hexadecimal (two characters stand for forty).
hexsha(c) == <<"0", DIGITS[c + 1]>>

Finding(reason, strings, branch_name, prev_commit, blob) ==
    [reason |-> reason, path |-> BlobPath(blob), branch |-> branch_name,
     commit_hash |-> hexsha(prev_commit), strings_found |-> strings]

\* find_entropy: <<>> for None, else <<entropic_diff>>.  The fields date, commit,
\* diff and print_diff are functions of the arguments and are left out.
find_entropy(printable_diff, branch_name, prev_commit, blob, entropy_regex_exclusions) ==
    LET strings_found == strings_found_of(printable_diff, entropy_regex_exclusions)
    IN  IF Len(strings_found) > 0
        THEN <<Finding("High Entropy", strings_found, branch_name, prev_commit, blob)>>
        ELSE <<>>

(***************************************************************************)
(* Pattern detector, path filter, diff worker                              *)
(***************************************************************************)
\* The default pattern registry (truffleHogRegexes.regexes), name -> pattern,
\* in the dictionary's iteration order.
regexes ==
    <<[name |-> "AWS API Key", re |-> Re(FALSE, <<"A","K","I","A">>, FALSE)],
      [name |-> "Slack Token", re |-> Re(FALSE, <<"x","o","x","b">>, FALSE)]>>

\* regex_check: one Finding per key whose pattern matches at least once.
regex_check(printable_diff, branch_name, prev_commit, blob, custom_regexes) ==
    LET secret_regexes == IF custom_regexes # <<>> THEN custom_regexes ELSE regexes
        found(k) == re_findall(secret_regexes[k].re, printable_diff)
    IN  Flatten([k \in DOMAIN secret_regexes |->
                    IF found(k) # <<>>
                    THEN <<Finding(secret_regexes[k].name, found(k), branch_name,
                                   prev_commit, blob)>>
                    ELSE <<>>])

\* path_included with the two tests in the other order of precedence: an empty
\* match of the inclusion list no longer excludes on its own.
path_included_excl_only(blob, include_patterns, exclude_patterns) ==
    LET path == BlobPath(blob)
    IN  ~ (\E k \in DOMAIN exclude_patterns : re_match(exclude_patterns[k], path))

path_included(blob, include_patterns, exclude_patterns) ==
    LET path == BlobPath(blob)
    IN  IF /\ include_patterns # <<>>
           /\ ~ \E k \in DOMAIN include_patterns : re_match(include_patterns[k], path)
        THEN FALSE
        ELSE IF /\ exclude_patterns # <<>>
                /\ \E k \in DOMAIN exclude_patterns : re_match(exclude_patterns[k], path)
        THEN FALSE
        ELSE TRUE

BINARY_FILES == <<"B","i","n","a","r","y"," ","f","i","l","e","s">>

\* Lines 284-302 for one blob: found_issues.
blob_issues(blob, prev_commit, branch_name, custom_regexes, do_entropy, do_regex, path_inclusions, path_exclusions, entropy_regex_exclusions) ==
    LET printable_diff == blob.diff
    IN  IF StartsWith(printable_diff, BINARY_FILES) THEN <<>>
        ELSE IF ~ path_included(blob, path_inclusions, path_exclusions) THEN <<>>
        ELSE (IF do_entropy
              THEN find_entropy(printable_diff, branch_name, prev_commit, blob,
                                entropy_regex_exclusions)
              ELSE <<>>)
             \o (IF do_regex
                 THEN regex_check(printable_diff, branch_name, prev_commit, blob,
                                  custom_regexes)
                 ELSE <<>>)

\* diff_worker that scans binary patches too (lines 285-286 dropped).
diff_worker_scan_binary(diff, prev_commit, branch_name, custom_regexes, do_entropy, do_regex, path_inclusions, path_exclusions, entropy_regex_exclusions) ==
    Flatten([b \in DOMAIN diff |->
        IF ~ path_included(diff[b], path_inclusions, path_exclusions) THEN <<>>
        ELSE (IF do_entropy
              THEN find_entropy(diff[b].diff, branch_name, prev_commit, diff[b],
                                entropy_regex_exclusions)
              ELSE <<>>)
             \o (IF do_regex
                 THEN regex_check(diff[b].diff, branch_name, prev_commit, diff[b],
                                  custom_regexes)
                 ELSE <<>>)])

\* diff_worker: the issues of a diff, blob by blob.  commit_hash is passed on to
\* regex_check, which never reads it; print_json and surpress_output only print.
diff_worker(diff, prev_commit, branch_name, custom_regexes, do_entropy, do_regex, path_inclusions, path_exclusions, entropy_regex_exclusions) ==
    Flatten([b \in DOMAIN diff |->
                blob_issues(diff[b], prev_commit, branch_name, custom_regexes,
                            do_entropy, do_regex, path_inclusions, path_exclusions,
                            entropy_regex_exclusions)])

(***************************************************************************)
(* The repository provider: a history of NumCommits commits in which       *)
(* commit 1 is the root and every other commit has one older parent; every *)
(* commit adds one file to its parent's tree.                              *)
(***************************************************************************)
NumCommits == 3

MaxBranches == 2

MaxDepth == 2

\* parser.set_defaults(max_depth=1000000)
DEFAULT_MAX_DEPTH == 1000000

Commits == 1..NumCommits

\* None, as a commit; also the empty tree NULL_TREE as the other side of a diff.
NoCommit == 0

NULL_TREE == 0

Histories ==
    {p \in [Commits -> 0..NumCommits] :
        /\ p[1] = NoCommit
        /\ \A c \in Commits \ {1} : p[c] \in 1..(c - 1)}

RECURSIVE Ancestry(_, _)
Ancestry(par, c) == IF c = NoCommit THEN <<>> ELSE <<c>> \o Ancestry(par, par[c])

Min(a, b) == IF a < b THEN a ELSE b

\* repo.iter_commits(branch_name, max_count=max_depth): newest first.
iter_commits(par, tip, max_count) ==
    LET all == Ancestry(par, tip) IN SubSeq(all, 1, Min(max_count, Len(all)))

HIGH_HEX == <<"0","1","2","3","4","5","6","7","8","9","a","b","c","d","e","f",
              "0","1","2","3","4">>

HIGH_B64 == SubSeq(UPPER, 1, 24)

LOW_HEX == [i \in 1..21 |-> "a"]

\* The line a commit's file holds, by turns: a hex secret, an AWS key id, prose.
FileLine(c) ==
    CASE c % 3 = 1 -> <<"k","e","y"," ","="," ">> \o HIGH_HEX
      [] c % 3 = 2 -> <<"i","d"," ","="," ","A","K","I","A","x">>
      [] OTHER     -> <<"h","e","l","l","o"," ","w","o","r","l","d">>

FilePath(c) == <<"f", DIGITS[c + 1], ".", "p", "y">>

TreeOf(par, c) == IF c = NULL_TREE THEN {} ELSE Range(Ancestry(par, c))

RECURSIVE SortedSeq(_)
SortedSeq(S) ==
    IF S = {} THEN <<>>
    ELSE LET m == CHOOSE x \in S : \A y \in S : x <= y
         IN  <<m>> \o SortedSeq(S \ {m})

\* a.diff(b, create_patch=True): the files of a's tree that b's tree lacks are
\* deleted, those b's tree adds are new.
RepoDiff(par, a, b) ==
    LET gone  == SortedSeq(TreeOf(par, a) \ TreeOf(par, b))
        added == SortedSeq(TreeOf(par, b) \ TreeOf(par, a))
    IN  [k \in DOMAIN gone |->
            [a_path |-> FilePath(gone[k]), b_path |-> <<>>,
             diff |-> <<"-">> \o FileLine(gone[k])]]
        \o [k \in DOMAIN added |->
            [a_path |-> <<>>, b_path |-> FilePath(added[k]),
             diff |-> <<"+">> \o FileLine(added[k])]]

(***************************************************************************)
(* History walker: find_strings                                            *)
(***************************************************************************)
VARIABLES
    history,              \* the repository: each commit's parent
    branches,             \* the fetched branches: the tip of each, in order
    since_commit,         \* the configured hexsha, <<>> for None
    max_depth,
    pc,                   \* "branches", "commits" or "done"; "call"/"return" below
    branch_name,          \* the index of the branch being walked
    commit_iter,          \* what iter_commits has still to yield
    since_commit_reached,
    prev_commit,
    curr_commit,
    commit_hash,
    already_searched,
    found_issues,         \* the issues handed to handle_results, in order
    calls,                \* history variable: every diff_worker call so far
    input,                \* the arguments of a function under test
    result                \* and what it returned

vars == <<history, branches, since_commit, max_depth, pc, branch_name, commit_iter,
          since_commit_reached, prev_commit, curr_commit, commit_hash,
          already_searched, found_issues, calls, input, result>>

repoVars == <<history, branches, since_commit, max_depth>>

fnVars == <<input, result>>

\* str(commit): a Commit prints as its hexsha, None as "None".
Str(c) == IF c = NoCommit THEN <<"N","o","n","e">> ELSE hexsha(c)

\* Line 381.  The digest is taken to be free of collisions: it is modelled by
\* the text it digests.
diff_hash_of(prev, curr) == Str(prev) \o Str(curr)

SinceChoices ==
    {<<>>} \cup {hexsha(c) : c \in Commits} \cup {hexsha(NumCommits + 1)}

Init ==
    /\ history \in Histories
    /\ branches \in UNION {[1..n -> Commits] : n \in 1..MaxBranches}
    /\ since_commit \in SinceChoices
    /\ max_depth \in (1..MaxDepth) \cup {DEFAULT_MAX_DEPTH}
    /\ pc = "branches"
    /\ branch_name = 0
    /\ commit_iter = <<>>
    /\ since_commit_reached = FALSE
    /\ prev_commit = NoCommit
    /\ curr_commit = NoCommit
    /\ commit_hash = <<>>
    /\ already_searched = {}
    /\ found_issues = <<>>
    /\ calls = <<>>
    /\ input = <<>>
    /\ result = <<>>

\* The options the walk passes to diff_worker: both detectors on, no filters.
Worker(diff, prev, branch) ==
    diff_worker(diff, prev, branch, <<>>, TRUE, TRUE, <<>>, <<>>, <<>>)

\* Lines 366-371: the next branch of the outer loop.
NextBranch ==
    /\ pc = "branches"
    /\ branch_name < Len(branches)
    /\ branch_name' = branch_name + 1
    /\ since_commit_reached' = FALSE
    /\ prev_commit' = NoCommit
    /\ curr_commit' = NoCommit
    /\ commit_hash' = <<>>
    /\ commit_iter' = iter_commits(history, branches[branch_name + 1], max_depth)
    /\ pc' = "commits"
    /\ UNCHANGED <<repoVars, already_searched, found_issues, calls, fnVars>>

\* Lines 371-374: the iterator yields the next commit.
Yield ==
    /\ pc = "commits"
    /\ commit_iter # <<>>
    /\ curr_commit' = Head(commit_iter)
    /\ commit_iter' = Tail(commit_iter)
    /\ commit_hash' = hexsha(Head(commit_iter))
    /\ since_commit_reached' =
           (since_commit_reached \/ hexsha(Head(commit_iter)) = since_commit)

\* SinceGate that holds for the commit since_commit alone, not for those after it.
SinceGateResets == since_commit # <<>> /\ commit_hash' = since_commit

\* Line 375: `if since_commit and since_commit_reached`.
SinceGate == since_commit # <<>> /\ since_commit_reached'

\* Lines 375-377: since_commit was reached, the pair only advances.
SinceSkip ==
    /\ Yield
    /\ SinceGate
    /\ prev_commit' = curr_commit'
    /\ UNCHANGED <<repoVars, pc, branch_name, already_searched, found_issues, calls,
                   fnVars>>

\* Lines 382-384: the newest commit has nothing to be diffed with.
FirstCommit ==
    /\ Yield
    /\ ~ SinceGate
    /\ prev_commit = NoCommit
    /\ prev_commit' = curr_commit'
    /\ UNCHANGED <<repoVars, pc, branch_name, already_searched, found_issues, calls,
                   fnVars>>

\* The test of line 385 without the set: no pair is ever skipped.
NeverSearched(diff_hash) == FALSE

\* Line 385: `diff_hash in already_searched`.
AlreadySearched(diff_hash) == diff_hash \in already_searched

\* Lines 385-387: the pair was searched already.
DedupSkip ==
    /\ Yield
    /\ ~ SinceGate
    /\ prev_commit # NoCommit
    /\ AlreadySearched(diff_hash_of(prev_commit, curr_commit'))
    /\ prev_commit' = curr_commit'
    /\ UNCHANGED <<repoVars, pc, branch_name, already_searched, found_issues, calls,
                   fnVars>>

\* Lines 388-396: the pair is diffed and handed to diff_worker.
DiffPair ==
    /\ Yield
    /\ ~ SinceGate
    /\ prev_commit # NoCommit
    /\ ~ AlreadySearched(diff_hash_of(prev_commit, curr_commit'))
    /\ already_searched' =
           already_searched \cup {diff_hash_of(prev_commit, curr_commit')}
    /\ found_issues' = found_issues \o
           Worker(RepoDiff(history, prev_commit, curr_commit'), prev_commit, branch_name)
    /\ calls' = Append(calls, [a |-> prev_commit, b |-> curr_commit',
                               prev |-> prev_commit, branch |-> branch_name])
    /\ prev_commit' = curr_commit'
    /\ UNCHANGED <<repoVars, pc, branch_name, fnVars>>

\* FirstCommitDiff with the final diff gated by the since state: once
\* since_commit was reached on the branch, the empty-tree diff is not scanned.
FirstCommitDiffGated ==
    /\ pc = "commits"
    /\ commit_iter = <<>>
    /\ found_issues' =
           IF since_commit_reached THEN found_issues
           ELSE found_issues \o
                Worker(RepoDiff(history, curr_commit, NULL_TREE), prev_commit, branch_name)
    /\ calls' =
           IF since_commit_reached THEN calls
           ELSE Append(calls, [a |-> curr_commit, b |-> NULL_TREE,
                               prev |-> prev_commit, branch |-> branch_name])
    /\ pc' = "branches"
    /\ UNCHANGED <<repoVars, branch_name, commit_iter, since_commit_reached,
                   prev_commit, curr_commit, commit_hash, already_searched, fnVars>>

\* Lines 397-402: the oldest visited commit against the empty tree.
FirstCommitDiff ==
    /\ pc = "commits"
    /\ commit_iter = <<>>
    /\ found_issues' = found_issues \o
           Worker(RepoDiff(history, curr_commit, NULL_TREE), prev_commit, branch_name)
    /\ calls' = Append(calls, [a |-> curr_commit, b |-> NULL_TREE,
                               prev |-> prev_commit, branch |-> branch_name])
    /\ pc' = "branches"
    /\ UNCHANGED <<repoVars, branch_name, commit_iter, since_commit_reached,
                   prev_commit, curr_commit, commit_hash, already_searched, fnVars>>

\* Lines 403-408: the branches are exhausted, the output is returned.
Return ==
    /\ pc = "branches"
    /\ branch_name = Len(branches)
    /\ pc' = "done"
    /\ UNCHANGED <<repoVars, branch_name, commit_iter, since_commit_reached,
                   prev_commit, curr_commit, commit_hash, already_searched,
                   found_issues, calls, fnVars>>

Next ==
    \/ NextBranch
    \/ SinceSkip
    \/ FirstCommit
    \/ DedupSkip
    \/ DiffPair
    \/ FirstCommitDiff
    \/ Return

Spec == Init /\ [][Next]_vars

(***************************************************************************)
(* Properties of the walk                                                  *)
(***************************************************************************)
\* What iter_commits yields for the k-th branch.
IterOf(k) == iter_commits(history, branches[k], max_depth)

\* How many commits of the k-th branch the walk has visited so far.
Consumed(k) ==
    IF k < branch_name THEN Len(IterOf(k))
    ELSE IF k = branch_name THEN Len(IterOf(k)) - Len(commit_iter)
    ELSE 0

\* The k-th branch's loop has ended, final diff included.
Finished(k) == k < branch_name \/ (k = branch_name /\ pc # "commits")

\* The pairs (previous, current) among the first n commits of the k-th branch.
AdjacentPairs(k, n) == {<<IterOf(k)[i], IterOf(k)[i + 1]>> : i \in 1..(n - 1)}

PairCalls == {i \in DOMAIN calls : calls[i].b # NULL_TREE}

CallsOf(a, b) == {i \in DOMAIN calls : calls[i].a = a /\ calls[i].b = b}

\* C1: with no since_commit, every pair of adjacent commits visited so far, on
\* every branch, has been handed to diff_worker exactly once in the scan; every
\* pair handed over is such a pair; and the seen set holds exactly the
\* identities of the pairs handed over.
C1_PairsExactlyOnce ==
    since_commit = <<>> =>
        /\ \A k \in 1..branch_name : \A p \in AdjacentPairs(k, Consumed(k)) :
               Cardinality(CallsOf(p[1], p[2])) = 1
        /\ \A i \in PairCalls : \E k \in 1..branch_name :
               <<calls[i].a, calls[i].b>> \in AdjacentPairs(k, Consumed(k))
        /\ already_searched = {diff_hash_of(calls[i].a, calls[i].b) : i \in PairCalls}

\* A finished scan of two branches that share a pair of adjacent commits.
C1_Witness ==
    /\ pc = "done"
    /\ since_commit = <<>>
    /\ Len(branches) = 2
    /\ AdjacentPairs(1, Len(IterOf(1))) \cap AdjacentPairs(2, Len(IterOf(2))) # {}

\* C2: a branch whose loop has ended has had exactly one diff against the empty
\* tree handed to diff_worker, that of its oldest visited commit, as the last
\* call made for the branch, whatever happened in the loop; a branch still being
\* walked has had none.
C2_FirstCommitDiffOncePerBranch ==
    \A k \in 1..Len(branches) :
        LET nulls == {i \in DOMAIN calls :
                         calls[i].branch = k /\ calls[i].b = NULL_TREE}
        IN  IF Finished(k)
            THEN /\ Cardinality(nulls) = 1
                 /\ \A i \in nulls :
                        /\ calls[i].a = IterOf(k)[Len(IterOf(k))]
                        /\ \A j \in DOMAIN calls : calls[j].branch = k => j <= i
            ELSE nulls = {}

\* A finished scan with a branch of a single visited commit and a branch on
\* which since_commit was reached.
C2_Witness ==
    /\ pc = "done"
    /\ \E k \in 1..Len(branches) : Len(IterOf(k)) = 1
    /\ \E k \in 1..Len(branches) : \E s \in DOMAIN IterOf(k) :
           s > 1 /\ hexsha(IterOf(k)[s]) = since_commit

\* C3: no pair handed to diff_worker on a branch has, as its older commit,
\* since_commit or a commit visited after it on that branch; the since state is
\* set exactly when since_commit is among the commits visited on the branch; and
\* after every visited commit prev_commit is that commit.
C3_NoPairAtOrAfterSince ==
    /\ \A i \in PairCalls :
           LET it == IterOf(calls[i].branch)
           IN  \A s \in DOMAIN it :
                   hexsha(it[s]) = since_commit =>
                       \E j \in 1..(s - 1) : it[j] = calls[i].b
    /\ pc = "commits" =>
           (since_commit_reached <=>
               \E j \in 1..Consumed(branch_name) :
                   hexsha(IterOf(branch_name)[j]) = since_commit)
    /\ (pc = "commits" /\ curr_commit # NoCommit) => prev_commit = curr_commit

\* The walk has just visited a commit after since_commit on the branch.
C3_Witness ==
    /\ pc = "commits"
    /\ since_commit_reached
    /\ commit_hash # since_commit
    /\ prev_commit = curr_commit

\* C4: on a finished branch that holds since_commit, the diff of every commit
\* visited before since_commit against the next-older commit has been handed to
\* diff_worker, the one against since_commit itself included.
C4_NewerThanSinceScanned ==
    \A k \in 1..Len(branches) :
        Finished(k) =>
            \A s \in DOMAIN IterOf(k) :
                hexsha(IterOf(k)[s]) = since_commit =>
                    \A i \in 1..(s - 1) :
                        CallsOf(IterOf(k)[i], IterOf(k)[i + 1]) # {}

\* C10: no diff is handed to diff_worker twice in a scan, the diff of a commit
\* against the empty tree included.
C10_NoDiffTwice ==
    \A i \in DOMAIN calls : \A j \in DOMAIN calls :
        i # j => <<calls[i].a, calls[i].b>> # <<calls[j].a, calls[j].b>>

(***************************************************************************)
(* The functions on their own: the arguments are drawn in the initial      *)
(* state (pc = "call") and one step applies the function (pc = "return").  *)
(* The walk's variables stay idle.                                         *)
(***************************************************************************)
scanVars == <<history, branches, since_commit, max_depth, branch_name, commit_iter,
              since_commit_reached, prev_commit, curr_commit, commit_hash,
              already_searched, found_issues, calls>>

ScanIdle ==
    /\ history = <<>>
    /\ branches = <<>>
    /\ since_commit = <<>>
    /\ max_depth = DEFAULT_MAX_DEPTH
    /\ branch_name = 0
    /\ commit_iter = <<>>
    /\ since_commit_reached = FALSE
    /\ prev_commit = NoCommit
    /\ curr_commit = NoCommit
    /\ commit_hash = <<>>
    /\ already_searched = {}
    /\ found_issues = <<>>
    /\ calls = <<>>

\* The sequences of at most n elements of S.
SeqsUpTo(S, n) == UNION {[1..k -> S] : k \in 0..n}

(***************************************************************************)
(* path_included                                                           *)
(***************************************************************************)
MaxPatterns == 2

A_PY == <<"a",".","p","y">>

SECRETS_TXT == <<"s","e","c","r","e","t","s",".","t","x","t">>

CONFIG_A_TXT == <<"c","o","n","f","i","g","/","a",".","t","x","t">>

\* ^config/
RE_CONFIG == Re(TRUE, <<"c","o","n","f","i","g","/">>, FALSE)

\* \.txt$
RE_TXT == Re(FALSE, <<".","t","x","t">>, TRUE)

\* secrets
RE_SECRETS == Re(FALSE, <<"s","e","c","r","e","t","s">>, FALSE)

FilterPaths == {A_PY, SECRETS_TXT, CONFIG_A_TXT}

FilterPatterns == {RE_CONFIG, RE_TXT, RE_SECRETS}

\* A changed file has a pre-image path, a post-image path or both.
FilterBlobs ==
    {[a_path |-> a, b_path |-> b, diff |-> <<>>] :
        a \in FilterPaths \cup {<<>>}, b \in FilterPaths \cup {<<>>}}
    \ {[a_path |-> <<>>, b_path |-> <<>>, diff |-> <<>>]}

InitFilter ==
    /\ ScanIdle
    /\ pc = "call"
    /\ input \in [blob : FilterBlobs,
                  include_patterns : SeqsUpTo(FilterPatterns, MaxPatterns),
                  exclude_patterns : SeqsUpTo(FilterPatterns, MaxPatterns)]
    /\ result = <<>>

CallPathIncluded ==
    /\ pc = "call"
    /\ result' = path_included(input.blob, input.include_patterns,
                               input.exclude_patterns)
    /\ pc' = "return"
    /\ UNCHANGED <<scanVars, input>>

SpecFilter == InitFilter /\ [][CallPathIncluded]_vars

\* The path the filter looks at: the post-image path if present, else the
\* pre-image path.
EffectivePath == IF input.blob.b_path # <<>> THEN input.blob.b_path
                 ELSE input.blob.a_path

SomeMatch(patterns) == \E k \in DOMAIN patterns : re_match(patterns[k], EffectivePath)

\* C5: path_included returns False if the inclusion list is non-empty and no
\* inclusion pattern matches the effective path, otherwise False if an exclusion
\* pattern matches it, otherwise True; so with both lists empty every path is
\* included, and a path no pattern of a non-empty inclusion list matches is
\* excluded whatever the exclusion list is.
C5_PathFilterPrecedence ==
    pc = "return" =>
        /\ result = (CASE input.include_patterns # <<>>
                              /\ ~ SomeMatch(input.include_patterns) -> FALSE
                       [] SomeMatch(input.exclude_patterns) -> FALSE
                       [] OTHER -> TRUE)
        /\ (input.include_patterns = <<>> /\ input.exclude_patterns = <<>>)
               => result = TRUE
        /\ (input.include_patterns # <<>> /\ ~ SomeMatch(input.include_patterns))
               => result = FALSE

\* A path that no inclusion pattern matches and no exclusion pattern matches
\* either, with both lists non-empty: excluded by the inclusion list alone.
C5_Witness ==
    /\ pc = "return"
    /\ input.include_patterns # <<>>
    /\ input.exclude_patterns # <<>>
    /\ ~ SomeMatch(input.include_patterns)
    /\ ~ SomeMatch(input.exclude_patterns)
    /\ result = FALSE

\* C6: the path config/a.txt, with the inclusion pattern ^config/ and the
\* exclusion pattern \.txt$, is excluded.
C6_SuffixExclusionApplies ==
    (/\ pc = "return"
     /\ EffectivePath = CONFIG_A_TXT
     /\ input.include_patterns = <<RE_CONFIG>>
     /\ input.exclude_patterns = <<RE_TXT>>) => result = FALSE

(***************************************************************************)
(* diff_worker                                                             *)
(***************************************************************************)
MaxBlobs == 2

\* A binary patch whose text happens to hold a high-entropy string.
BLOB_BINARY ==
    [a_path |-> A_PY, b_path |-> A_PY, diff |-> BINARY_FILES \o <<" ">> \o HIGH_HEX]

BLOB_SECRET ==
    [a_path |-> <<>>, b_path |-> CONFIG_A_TXT, diff |-> <<"+","k","e","y"," ","="," ">> \o HIGH_HEX]

\* Both default patterns match, the first of them twice.
BLOB_KEYS ==
    [a_path |-> A_PY, b_path |-> <<>>, diff |-> <<"-","i","d"," ","="," ","A","K","I","A","x"," ","A","K","I","A","y"," ","x","o","x","b">>]

BLOB_BOTH ==
    [a_path |-> SECRETS_TXT, b_path |-> SECRETS_TXT,
     diff |-> <<"+","A","K","I","A"," ">> \o HIGH_B64 \o <<NEWLINE>> \o <<"+","k","e","y"," ","="," ">>]

BLOB_PLAIN ==
    [a_path |-> A_PY, b_path |-> A_PY, diff |-> <<"+","h","e","l","l","o"," ","w","o","r","l","d">>]

WorkerBlobs == {BLOB_BINARY, BLOB_SECRET, BLOB_KEYS, BLOB_BOTH, BLOB_PLAIN}

CUSTOM_REGEXES == <<[name |-> "Key Marker", re |-> Re(FALSE, <<"k","e","y">>, FALSE)]>>

InitWorker ==
    /\ ScanIdle
    /\ pc = "call"
    /\ input \in [diff : SeqsUpTo(WorkerBlobs, MaxBlobs) \ {<<>>},
                  do_entropy : BOOLEAN,
                  do_regex : BOOLEAN,
                  custom_regexes : {<<>>, CUSTOM_REGEXES},
                  path_exclusions : {<<>>, <<RE_CONFIG>>}]
    /\ result = <<>>

CallDiffWorker ==
    /\ pc = "call"
    /\ result' = diff_worker(input.diff, 1, 1, input.custom_regexes, input.do_entropy,
                             input.do_regex, <<>>, input.path_exclusions, <<>>)
    /\ pc' = "return"
    /\ UNCHANGED <<scanVars, input>>

SpecWorker == InitWorker /\ [][CallDiffWorker]_vars

\* The reasons the claim lets one changed file contribute, in order.
ExpectedReasons(blob) ==
    LET patterns == IF input.custom_regexes # <<>> THEN input.custom_regexes
                    ELSE regexes
    IN  IF StartsWith(blob.diff, BINARY_FILES)
           \/ ~ path_included(blob, <<>>, input.path_exclusions)
        THEN <<>>
        ELSE (IF input.do_entropy /\ strings_found_of(blob.diff, <<>>) # <<>>
              THEN <<"High Entropy">> ELSE <<>>)
             \o (IF input.do_regex
                 THEN [j \in 1..Len(SelectSeq(patterns,
                            LAMBDA r : re_search(r.re, blob.diff))) |->
                          SelectSeq(patterns,
                              LAMBDA r : re_search(r.re, blob.diff))[j].name]
                 ELSE <<>>)

\* C7: the Findings of a diff are, file by file and in order: none for a binary
\* patch or a rejected path; otherwise one "High Entropy" Finding iff entropy
\* detection is on and flags a string, then one Finding per pattern name that
\* matches, iff pattern detection is on; none at all with both detectors off.
C7_FindingsPerFile ==
    pc = "return" =>
        /\ [i \in DOMAIN result |-> <<result[i].path, result[i].reason>>]
             = Flatten([b \in DOMAIN input.diff |->
                   [j \in DOMAIN ExpectedReasons(input.diff[b]) |->
                       <<BlobPath(input.diff[b]), ExpectedReasons(input.diff[b])[j]>>]])
        /\ (~ input.do_entropy /\ ~ input.do_regex) => result = <<>>

\* A binary patch followed by a file that both detectors flag.
C7_Witness ==
    /\ pc = "return"
    /\ input.do_entropy
    /\ input.do_regex
    /\ input.diff = <<BLOB_BINARY, BLOB_BOTH>>
    /\ input.custom_regexes = <<>>
    /\ Len(result) = 2
    /\ result[1].reason = "High Entropy"
    /\ result[2].reason = "AWS API Key"

(***************************************************************************)
(* find_entropy                                                            *)
(***************************************************************************)
MaxLines == 2

LINE_SECRET == <<"+","k","e","y"," ","="," ">> \o HIGH_HEX

\* The same string as on LINE_SECRET, on a line that carries the marker.
LINE_SUPPRESSED == <<"+","k","e","y"," ","="," ">> \o HIGH_HEX \o <<" ","#"," ">> \o NO_TRUFFLEHOG

\* The marker glued to a string found on no other line.
LINE_GLUED == <<"-">> \o HIGH_B64 \o NO_TRUFFLEHOG

LINE_B64 == <<"+">> \o HIGH_B64

LINE_LOW == <<"+">> \o LOW_HEX

\* A line a caller's exclusion pattern can match.
LINE_SKIP == <<"+","s","k","i","p","m","e"," ">> \o <<"f","e","d","c","b","a","9","8","7","6","5","4","3","2","1","0","f","e","d","c","b">>

EntropyLines == {LINE_SECRET, LINE_SUPPRESSED, LINE_GLUED, LINE_B64, LINE_LOW, LINE_SKIP}

RE_SKIP == Re(FALSE, <<"s","k","i","p","m","e">>, FALSE)

InitEntropy ==
    /\ ScanIdle
    /\ pc = "call"
    /\ input \in [printable_diff :
                      {JoinWith(ls, <<NEWLINE>>) :
                          ls \in SeqsUpTo(EntropyLines, MaxLines) \ {<<>>}},
                  entropy_regex_exclusions : {<<>>, <<RE_SKIP>>}]
    /\ result = <<>>

CallFindEntropy ==
    /\ pc = "call"
    /\ result' = find_entropy(input.printable_diff, 1, 1,
                     [a_path |-> A_PY, b_path |-> <<>>, diff |-> input.printable_diff],
                     input.entropy_regex_exclusions)
    /\ pc' = "return"
    /\ UNCHANGED <<scanVars, input>>

SpecEntropy == InitEntropy /\ [][CallFindEntropy]_vars

\* The strings_found of the Finding returned, none if no Finding was.
FoundStrings == IF result = <<>> THEN {} ELSE Range(result[1].strings_found)

DiffLines == Range(SplitOn(input.printable_diff, NEWLINE))

\* C8, as stated: no string occurring on a line that contains the marker is in
\* the Finding's strings_found.
C8_NoStringOfSuppressedLine ==
    pc = "return" =>
        \A line \in DiffLines :
            Contains(line, NO_TRUFFLEHOG) =>
                \A str \in FoundStrings : ~ Contains(line, str)

\* C8, amended: every string of strings_found occurs on a line that does not
\* contain the marker (a string found only on lines with the marker is never
\* reported), and a diff all of whose lines contain it yields no Finding.
C8_FoundOnUnsuppressedLine ==
    pc = "return" =>
        /\ \A str \in FoundStrings :
               \E line \in DiffLines :
                   ~ Contains(line, NO_TRUFFLEHOG) /\ Contains(line, str)
        /\ (\A line \in DiffLines : Contains(line, NO_TRUFFLEHOG)) => result = <<>>

\* A line with the marker and a high-entropy string of its own, next to a line
\* that is flagged.
C8_Witness ==
    /\ pc = "return"
    /\ input.printable_diff = JoinWith(<<LINE_GLUED, LINE_SECRET>>, <<NEWLINE>>)
    /\ EntropyExceeds(HIGH_B64 \o <<"n","o">>, BASE64_CHARS, B64_LIMIT_TENTHS)
    /\ FoundStrings = {HIGH_HEX}

(***************************************************************************)
(* get_strings_of_set                                                      *)
(***************************************************************************)
RunSlack == 2

\* A run of n hexadecimal digits of high entropy.
Run(n) == [i \in 1..n |-> HIGH_HEX[((i - 1) % Len(HIGH_HEX)) + 1]]

RunLengths == {0} \cup ((THRESHOLD - RunSlack)..(THRESHOLD + RunSlack))

\* "_" is in neither character set, "g" in the base64 set only.
Separators == {<<"_">>, <<"g">>}

Words ==
    {Run(n1) \o sep \o Run(n2) \o tail :
        n1 \in RunLengths, n2 \in RunLengths, sep \in Separators,
        tail \in {<<>>, <<"_">>}}

InitStrings ==
    /\ ScanIdle
    /\ pc = "call"
    /\ input \in [word : Words, char_set : {BASE64_CHARS, HEX_CHARS}]
    /\ result = <<>>

\* get_strings_of_set on the word, and find_entropy's strings_found for a diff
\* that is that word.
CallGetStrings ==
    /\ pc = "call"
    /\ result' = [strings  |-> get_strings_of_set(input.word, input.char_set),
                  reported |-> strings_found_of(input.word, <<>>)]
    /\ pc' = "return"
    /\ UNCHANGED <<scanVars, input>>

SpecStrings == InitStrings /\ [][CallGetStrings]_vars

InSet(i) == CharIn(input.word[i], input.char_set)

\* The maximal runs of characters of the set, as <<first, last>>, longer than
\* the threshold.
LongRuns ==
    {r \in (DOMAIN input.word) \X (DOMAIN input.word) :
        /\ r[1] <= r[2]
        /\ \A k \in r[1]..r[2] : InSet(k)
        /\ r[1] = 1 \/ ~ InSet(r[1] - 1)
        /\ r[2] = Len(input.word) \/ ~ InSet(r[2] + 1)
        /\ r[2] - r[1] + 1 > THRESHOLD}

\* C9: get_strings_of_set returns exactly the maximal runs longer than the
\* threshold, in order of occurrence, a run at the end of the word included;
\* and no string of THRESHOLD characters or fewer is reported by find_entropy.
C9_ExactlyTheLongRuns ==
    pc = "return" =>
        /\ Len(result.strings) = Cardinality(LongRuns)
        /\ \A n \in DOMAIN result.strings :
               \E r \in LongRuns :
                   /\ Cardinality({q \in LongRuns : q[1] < r[1]}) = n - 1
                   /\ result.strings[n] = SubSeq(input.word, r[1], r[2])
        /\ \A n \in DOMAIN result.reported : Len(result.reported[n]) > THRESHOLD

\* A run of exactly THRESHOLD characters, of high entropy, followed by a longer
\* one that ends the word: only the second is returned.
C9_Witness ==
    /\ pc = "return"
    /\ input.word = Run(THRESHOLD) \o <<"_">> \o Run(THRESHOLD + 1)
    /\ input.char_set = HEX_CHARS
    /\ EntropyExceeds(Run(THRESHOLD), HEX_CHARS, HEX_LIMIT_TENTHS)
    /\ result.strings = <<Run(THRESHOLD + 1)>>
    /\ result.reported = <<Run(THRESHOLD + 1)>>

=============================================================================
